---------------------------- MODULE Spec2Model ----------------------------
(***************************************************************************)
(* A model of the Reed-Solomon codec of this repository: the GF(256)       *)
(* lookup tables (GaloisField.py), the polynomial algebra built on them    *)
(* (Polynomial.py) and the encoder and decoder (ReedSolomon.py).           *)
(*                                                                         *)
(* Python lists are modelled as TLA+ sequences; a 0-based Python index i   *)
(* is the 1-based sequence index i + 1.                                    *)
(***************************************************************************)
EXTENDS Integers, Sequences, FiniteSets, TLC

VARIABLES
    pc,                   \* codec: "new", "built", "sent", "done"
    error_size,           \* the parity size the codec was constructed for
    generator_polynomial, \* ReedSolomon.generator_polynomial
    message,              \* the str handed to encode, as its code points
    encoded,              \* what encode returned
    received,             \* the list handed to decode (negative = erasure)
    result,               \* what decode did: see decode below
    op,                   \* pure-function specifications: the function applied
    args,                 \* ... its arguments
    ret                   \* ... what it returned

vars == <<pc, error_size, generator_polynomial, message, encoded, received,
          result, op, args, ret>>

codecVars == <<pc, error_size, generator_polynomial, message, encoded,
               received, result>>

callVars == <<op, args, ret>>

-----------------------------------------------------------------------------
(* Python's a ^ b on non-negative integers, bit by bit. *)
RECURSIVE XorBits(_, _)
XorBits(a, b) ==
    IF a = 0 THEN b
    ELSE IF b = 0 THEN a
    ELSE (((a % 2) + (b % 2)) % 2) + (2 * XorBits(a \div 2, b \div 2))

(* XorBits of every two bytes, computed once. *)
XorTable ==
    <<>> \o [a \in 1..256 |-> <<>> \o [b \in 1..256 |-> XorBits(a - 1, b - 1)]]

Xor(a, b) ==
    IF a < 256 /\ b < 256 THEN XorTable[a + 1][b + 1] ELSE XorBits(a, b)

(* [0] * n *)
Zeros(n) == <<>> \o [i \in 1..n |-> 0]

-----------------------------------------------------------------------------
(* GaloisField.py *)

size == 512

lowSize == 256

(* val & 0x100 and val ^= 0x11d *)
ReducingPolynomial == 285

(* One pass of the first loop of GaloisField.__init__: st.val is the       *)
(* running value, st.GF and st.logTable the arrays so far.                 *)
InitLowStep(position, st) ==
    LET shifted == st.val * 2
        v == IF (shifted \div 256) % 2 = 1
             THEN Xor(shifted, ReducingPolynomial)
             ELSE shifted
    IN  [val      |-> v,
         GF       |-> [st.GF EXCEPT ![position + 1] = v],
         logTable |-> [st.logTable EXCEPT ![v + 1] = position]]

(* for position in range(first, last), in order. The range is split in     *)
(* two, and the first half is evaluated before the second is entered, to   *)
(* keep the evaluation shallow.                                            *)
RECURSIVE InitLow(_, _, _)
InitLow(first, last, st) ==
    IF last <= first THEN st
    ELSE IF last - first = 1 THEN InitLowStep(first, st)
    ELSE LET mid  == (first + last) \div 2
             half == InitLow(first, mid, st)
         IN  IF half.val >= 0 THEN InitLow(mid, last, half) ELSE half

(* One pass of the second loop: the entry lowSize - 1 places earlier.      *)
InitHighStep(position, st) ==
    [st EXCEPT !.GF[position + 1] = st.GF[position - (lowSize - 1) + 1]]

RECURSIVE InitHigh(_, _, _)
InitHigh(first, last, st) ==
    IF last <= first THEN st
    ELSE IF last - first = 1 THEN InitHighStep(first, st)
    ELSE LET mid  == (first + last) \div 2
             half == InitHigh(first, mid, st)
         IN  IF half.val >= 0 THEN InitHigh(mid, last, half) ELSE half

GaloisField ==
    InitHigh(lowSize - 1, size,
             InitLow(1, lowSize - 1,
                     [val      |-> 1,
                      GF       |-> [Zeros(size) EXCEPT ![1] = 1],
                      logTable |-> Zeros(lowSize)]))

(* self.GF[item][0], item >= 0 *)
GF(item) == GaloisField.GF[item + 1]

(* self.__logTable[x][0], x >= 0 *)
logTable(x) == GaloisField.logTable[x + 1]

gfMul(x, y) ==
    IF x = 0 \/ y = 0 THEN 0
    ELSE GF(logTable(x) + logTable(y))

(* What gfDiv gives back when it raises ZeroDivisionError. *)
ZeroDivisionError == -1

gfDiv(x, y) ==
    IF y = 0 THEN ZeroDivisionError
    ELSE IF x = 0 THEN 0
    ELSE GF(logTable(x) - logTable(y) + (lowSize - 1))

(* Python's % takes the sign of the divisor, as TLA+'s does. *)
gfPow(x, power) == GF((logTable(x) * power) % lowSize)

gfInv(x) == GF((lowSize - 1) - logTable(x))

-----------------------------------------------------------------------------
(* Python lists *)

(* The evaluated list of a sequence-valued expression. *)
List(s) == <<>> \o s

(* The sequences of length n over S. *)
RECURSIVE SeqsOfLength(_, _)
SeqsOfLength(S, n) ==
    IF n = 0 THEN {<<>>}
    ELSE {Append(q, x) : q \in SeqsOfLength(S, n - 1), x \in S}

(* The sequences of length 1 .. n over S. *)
SeqsUpTo(S, n) == UNION {SeqsOfLength(S, k) : k \in 1..n}

Max(a, b) == IF a >= b THEN a ELSE b

Min(a, b) == IF a <= b THEN a ELSE b

(* s[:stop], Python's clamping of a negative or too large stop included. *)
SliceTo(s, stop) ==
    LET e == IF stop < 0 THEN Max(Len(s) + stop, 0) ELSE Min(stop, Len(s))
    IN  SubSeq(s, 1, e)

(* s[start:] *)
SliceFrom(s, start) ==
    LET b == IF start < 0 THEN Max(Len(s) + start, 0) ELSE Min(start, Len(s))
    IN  SubSeq(s, b + 1, Len(s))

(* s[::-1] *)
Reversed(s) == List([i \in 1..Len(s) |-> s[Len(s) + 1 - i]])

-----------------------------------------------------------------------------
(* Polynomial.py: a polynomial is its coefficient list. *)

(* A sum that pads the shorter operand on the low-degree side. *)
addLowAligned(self, other) ==
    LET n == Max(Len(self), Len(other))
        own(i)    == IF i <= Len(self) THEN self[i] ELSE 0
        theirs(i) == IF i <= Len(other) THEN other[i] ELSE 0
    IN  List([i \in 1..n |-> Xor(own(i), theirs(i))])

__add__(self, other) ==
    LET n == Max(Len(self), Len(other))
        own(i)   == IF i > n - Len(self) THEN self[i - (n - Len(self))] ELSE 0
        theirs(i) == IF i > n - Len(other) THEN other[i - (n - Len(other))] ELSE 0
    IN  List([i \in 1..n |-> Xor(own(i), theirs(i))])

scale(self, x) == List([i \in 1..Len(self) |-> gfMul(self[i], x)])

(* The loop of eval from `position` on, val the value so far. *)
RECURSIVE evalLoop(_, _, _, _)
evalLoop(self, x, position, val) ==
    IF position >= Len(self) THEN val
    ELSE evalLoop(self, x, position + 1, Xor(gfMul(val, x), self[position + 1]))

eval(self, x) == evalLoop(self, x, 1, self[1])

(* What the loops of __mul__ leave in mul[k]: the XOR of                   *)
(* gfMul(self[posX], other[posY]) over posX + posY = k, from posX on.      *)
RECURSIVE mulCoefficient(_, _, _, _)
mulCoefficient(self, other, k, posX) ==
    IF posX >= Len(self) THEN 0
    ELSE LET posY == k - posX
             term == IF posY >= 0 /\ posY < Len(other)
                     THEN gfMul(self[posX + 1], other[posY + 1])
                     ELSE 0
         IN  Xor(term, mulCoefficient(self, other, k, posX + 1))

__mul__(self, other) ==
    LET num == Len(self) + Len(other) - 1
    IN  List([k \in 1..num |-> mulCoefficient(self, other, k - 1, 0)])

(* The inner loop of __truediv__ for one posX, from posY on. *)
RECURSIVE truedivInner(_, _, _, _)
truedivInner(num, other, posX, posY) ==
    IF posY >= Len(other) THEN num
    ELSE truedivInner(
             [num EXCEPT ![posX + posY + 1] =
                 Xor(num[posX + posY + 1], gfMul(other[posY + 1], num[posX + 1]))],
             other, posX, posY + 1)

(* The outer loop of __truediv__: posX in range(stop), from posX on. *)
RECURSIVE truedivOuter(_, _, _, _)
truedivOuter(num, other, posX, stop) ==
    IF posX >= stop THEN num
    ELSE truedivOuter(truedivInner(num, other, posX, 1), other, posX + 1, stop)

__truediv__(self, other) ==
    LET num == truedivOuter(List(self), other, 0, Len(self) - Len(other) - 1)
        div == 0 - (Len(other) - 1)
    IN  [quotient |-> SliceTo(num, div), remainder |-> SliceFrom(num, div)]

RECURSIVE generatorLoop(_, _, _)
generatorLoop(polynomial_value, position, errorSize) ==
    IF position >= errorSize THEN polynomial_value
    ELSE generatorLoop(__mul__(polynomial_value, <<1, GF(position)>>),
                       position + 1, errorSize)

(* A generator whose roots are 2^1 .. 2^error_size. *)
generatorFromOne(errorSize) == generatorLoop(<<1>>, 1, errorSize + 1)

generator(errorSize) == generatorLoop(<<1>>, 0, errorSize)

syndromePolynomial(block, errorSize) ==
    List([i \in 1..errorSize |-> eval(block, GF(i - 1))])

RECURSIVE errorLocatorLoop(_, _, _)
errorLocatorLoop(error_locator, error_positions, k) ==
    IF k > Len(error_positions) THEN error_locator
    ELSE errorLocatorLoop(
             __mul__(error_locator,
                     __add__(<<1>>, <<gfPow(2, error_positions[k]), 0>>)),
             error_positions, k + 1)

errorLocatorPolynomial(error_positions) ==
    errorLocatorLoop(<<1>>, error_positions, 1)

errorEvaluatorPolynomial(syndrome_polynomial, error_locator, errorSize) ==
    __truediv__(__mul__(syndrome_polynomial, error_locator),
                <<1>> \o Zeros(errorSize)).remainder

-----------------------------------------------------------------------------
(* ReedSolomon.py *)

(* A str is modelled as the sequence of its code points, so ord(char) is   *)
(* the element itself.                                                     *)
ord(char) == char

(* The reduction loop of encode, from `position` on: for a non-zero        *)
(* buffer[position], XOR its multiples of the generator into the buffer.   *)
RECURSIVE encodeInner(_, _, _, _, _)
encodeInner(buffer, g, position, char, poly_position) ==
    IF poly_position >= Len(g) THEN buffer
    ELSE encodeInner(
             [buffer EXCEPT ![position + poly_position + 1] =
                 Xor(buffer[position + poly_position + 1],
                     gfMul(g[poly_position + 1], char))],
             g, position, char, poly_position + 1)

RECURSIVE encodeLoop(_, _, _, _)
encodeLoop(buffer, g, position, length) ==
    IF position >= length THEN buffer
    ELSE LET char == buffer[position + 1]
         IN  encodeLoop(IF char # 0
                        THEN encodeInner(buffer, g, position, char, 0)
                        ELSE buffer,
                        g, position + 1, length)

(* encode(message, error_size) of a codec whose generator polynomial is g *)
encode(g, msg, errorSize) ==
    LET buffer_size == Len(msg) + errorSize
        filled  == List([i \in 1..buffer_size |->
                           IF i <= Len(msg) THEN ord(msg[i]) ELSE 0])
        reduced == encodeLoop(filled, g, 0, Len(msg))
    IN  List([i \in 1..buffer_size |->
                IF i <= Len(msg) THEN ord(msg[i]) ELSE reduced[i]])

(* The pass of forneySyndromes for the i-th erasure, and the pop. *)
RECURSIVE forneyLoop(_, _, _)
forneyLoop(forney_syndromes, coefficient_pos, i) ==
    IF i > Len(coefficient_pos) THEN forney_syndromes
    ELSE LET x == gfPow(2, coefficient_pos[i])
         IN  forneyLoop(
                 List([j \in 1..(Len(forney_syndromes) - 1) |->
                         Xor(gfMul(forney_syndromes[j], x),
                             forney_syndromes[j + 1])]),
                 coefficient_pos, i + 1)

forneySyndromes(syndrome_polynomial, erasures, msg) ==
    forneyLoop(syndrome_polynomial,
               List([k \in 1..Len(erasures) |-> Len(msg) - 1 - erasures[k]]),
               1)

(* s[k] with Python's negative indices *)
At(s, k) == IF k < 0 THEN s[Len(s) + k + 1] ELSE s[k + 1]

(* The discrepancy of Berlekamp-Massey at syndrome i, from j on. *)
RECURSIVE discrepancy(_, _, _, _, _)
discrepancy(delta, error_loc_polynomial, forney_syndromes, i, j) ==
    IF j >= Len(error_loc_polynomial) THEN delta
    ELSE discrepancy(
             Xor(delta, gfMul(At(error_loc_polynomial, 0 - (j + 1)),
                              At(forney_syndromes, i - j))),
             error_loc_polynomial, forney_syndromes, i, j + 1)

(* One pass of the Berlekamp-Massey loop once delta is known and           *)
(* last_known has had its 0 appended: the new error_loc_polynomial (loc)   *)
(* and last_known (last).                                                  *)
berlekampMasseyStep(error_loc_polynomial, last_known, delta) ==
    IF delta = 0
    THEN [loc |-> error_loc_polynomial, last |-> last_known]
    ELSE IF Len(last_known) > Len(error_loc_polynomial)
    THEN LET new_last == scale(error_loc_polynomial, gfInv(delta))
         IN  [loc  |-> __add__(scale(last_known, delta), scale(new_last, delta)),
              last |-> new_last]
    ELSE [loc  |-> __add__(error_loc_polynomial, scale(last_known, delta)),
          last |-> last_known]

(* The Berlekamp-Massey loop of findErrors, from syndrome i on. *)
RECURSIVE berlekampMassey(_, _, _)
berlekampMassey(st, forney_syndromes, i) ==
    IF i >= Len(forney_syndromes) THEN st.loc
    ELSE berlekampMassey(
             berlekampMasseyStep(st.loc, Append(st.last, 0),
                                 discrepancy(forney_syndromes[i + 1], st.loc,
                                             forney_syndromes, i, 1)),
             forney_syndromes, i + 1)

(* A degree test that lets through as many errors as syndromes. *)
tooManyErrorsLax(error_count, forney_syndromes) ==
    error_count > Len(forney_syndromes)

(* findErrors' test of the locator's degree *)
tooManyErrors(error_count, forney_syndromes) ==
    error_count * 2 > Len(forney_syndromes)

(* The i of the Chien search of findErrors, in order. *)
ChienRange == List([k \in 1..lowSize |-> k - 1])

(* The Chien search: error_list. *)
chienSearch(error_loc_polynomial, length_message) ==
    LET IsRoot(i) == eval(error_loc_polynomial, gfPow(2, i)) = 0
        roots == SelectSeq(ChienRange, IsRoot)
    IN  List([k \in 1..Len(roots) |-> length_message - roots[k] - 1])

(* The sanity check that ends findErrors. *)
sanityCheck(error_loc_polynomial, error_list) ==
    [kind       |-> IF Len(error_list) # Len(error_loc_polynomial) - 1
                    THEN "TooManyErrors" ELSE "ok",
     locator    |-> error_loc_polynomial,
     searched   |-> TRUE,
     error_list |-> error_list]

(* findErrors once the reversed locator is known. *)
locate(error_loc_polynomial, forney_syndromes, length_message) ==
    IF tooManyErrors(Len(error_loc_polynomial) - 1, forney_syndromes)
    THEN [kind |-> "TooManyErrors", locator |-> error_loc_polynomial,
          searched |-> FALSE, error_list |-> <<>>]
    ELSE sanityCheck(error_loc_polynomial,
                     chienSearch(error_loc_polynomial, length_message))

(* kind is "ok" with error_list, or the ReedSolomonError raised; locator   *)
(* is the reversed locator and searched whether the Chien search ran.      *)
findErrors(forney_syndromes, length_message) ==
    locate(Reversed(berlekampMassey([loc |-> <<1>>, last |-> <<1>>],
                                    forney_syndromes, 0)),
           forney_syndromes, length_message)

(* The product of the Forney loop's derivative terms, over j # i. *)
RECURSIVE derivative(_, _, _, _)
derivative(error_positions, error_inv, i, j) ==
    IF j > Len(error_positions) THEN 1
    ELSE IF j = i THEN derivative(error_positions, error_inv, i, j + 1)
    ELSE gfMul(derivative(error_positions, error_inv, i, j + 1),
               Xor(1, gfMul(error_inv, error_positions[j])))

(* The Forney loop of correct, from the i-th error on: forney computes the *)
(* derivative and y, forneyAssign divides and stores the magnitude. A      *)
(* raised exception ends the loop.                                         *)
RECURSIVE forney(_, _, _, _, _)
RECURSIVE forneyAssign(_, _, _, _, _, _, _)
forneyAssign(error_magnitudes, error_positions, error_eval, errors, i, error_loc_derivative, y) ==
    IF error_loc_derivative = 0
    THEN [kind |-> "ZeroDivisionError", error_magnitudes |-> error_magnitudes]
    ELSE IF errors[i] >= Len(error_magnitudes)
            \/ errors[i] < 0 - Len(error_magnitudes)
    THEN [kind |-> "IndexError", error_magnitudes |-> error_magnitudes]
    ELSE forney([error_magnitudes EXCEPT
                    ![IF errors[i] < 0
                      THEN Len(error_magnitudes) + errors[i] + 1
                      ELSE errors[i] + 1] = gfDiv(y, error_loc_derivative)],
                error_positions, error_eval, errors, i + 1)

forney(error_magnitudes, error_positions, error_eval, errors, i) ==
    IF i > Len(error_positions)
    THEN [kind |-> "ok", error_magnitudes |-> error_magnitudes]
    ELSE forneyAssign(error_magnitudes, error_positions, error_eval, errors, i,
                      derivative(error_positions, gfInv(error_positions[i]), i, 1),
                      eval(error_eval, gfInv(error_positions[i])))

(* The end of correct: the magnitudes added to the message. *)
applyMagnitudes(msg, done) ==
    [kind             |-> done.kind,
     symbols          |-> IF done.kind = "ok"
                          THEN __add__(msg, done.error_magnitudes)
                          ELSE <<>>,
     error_magnitudes |-> done.error_magnitudes]

(* correct once the locator of all the positions is known. *)
correctLocated(msg, syndrome_polynomial, errors, coefficient_pos, error_locator) ==
    applyMagnitudes(
        msg,
        forney(Zeros(Len(msg)),
               List([k \in 1..Len(coefficient_pos) |->
                       gfPow(2, 0 - (lowSize - coefficient_pos[k]))]),
               errorEvaluatorPolynomial(Reversed(syndrome_polynomial),
                                        error_locator, Len(error_locator)),
               errors, 1))

(* correct once coefficient_pos is known. *)
correctAt(msg, syndrome_polynomial, errors, coefficient_pos) ==
    correctLocated(msg, syndrome_polynomial, errors, coefficient_pos,
                   errorLocatorPolynomial(coefficient_pos))

(* kind is "ok" with the corrected symbols, or the exception raised. *)
correct(msg, syndrome_polynomial, errors) ==
    correctAt(msg, syndrome_polynomial, errors,
              List([k \in 1..Len(errors) |-> Len(msg) - 1 - errors[k]]))

(* A continuation byte of UTF-8, between lo and hi. *)
Continuation(bytes, k, lo, hi) ==
    k <= Len(bytes) /\ bytes[k] >= lo /\ bytes[k] <= hi

(* bytearray(symbols).decode('utf-8') from byte k on: the code points      *)
(* decoded, or the failure of the strict decoder.                          *)
RECURSIVE utf8Loop(_, _, _)
utf8Loop(bytes, k, text) ==
    IF k > Len(bytes) THEN [kind |-> "ok", text |-> text]
    ELSE LET b == bytes[k]
             fail == [kind |-> "UnicodeDecodeError", text |-> <<>>]
             low(j) == bytes[j] % 64
         IN  IF b < 128 THEN utf8Loop(bytes, k + 1, Append(text, b))
             ELSE IF b >= 194 /\ b <= 223
             THEN IF Continuation(bytes, k + 1, 128, 191)
                  THEN utf8Loop(bytes, k + 2,
                                Append(text, (b % 32) * 64 + low(k + 1)))
                  ELSE fail
             ELSE IF b >= 224 /\ b <= 239
             THEN IF /\ Continuation(bytes, k + 1,
                                     IF b = 224 THEN 160 ELSE 128,
                                     IF b = 237 THEN 159 ELSE 191)
                     /\ Continuation(bytes, k + 2, 128, 191)
                  THEN utf8Loop(bytes, k + 3,
                                Append(text, (b % 16) * 4096 + low(k + 1) * 64
                                             + low(k + 2)))
                  ELSE fail
             ELSE IF b >= 240 /\ b <= 244
             THEN IF /\ Continuation(bytes, k + 1,
                                     IF b = 240 THEN 144 ELSE 128,
                                     IF b = 244 THEN 143 ELSE 191)
                     /\ Continuation(bytes, k + 2, 128, 191)
                     /\ Continuation(bytes, k + 3, 128, 191)
                  THEN utf8Loop(bytes, k + 4,
                                Append(text, (b % 8) * 262144 + low(k + 1) * 4096
                                             + low(k + 2) * 64 + low(k + 3)))
                  ELSE fail
             ELSE fail

utf8(bytes) == utf8Loop(bytes, 1, <<>>)

(* An erasure test that refuses error_size erasures too. *)
tooManyErasuresStrict(erasures, errorSize) == Len(erasures) >= errorSize

(* decode's test after the erasure scan *)
tooManyErasures(erasures, errorSize) == Len(erasures) > errorSize

(* The erasure scan of decode: the positions holding a negative value. *)
erasureScan(msg) ==
    SelectSeq(List([k \in 1..Len(msg) |-> k - 1]), LAMBDA k : msg[k + 1] < 0)

(* The erasure scan of decode: the buffer, zero where a value is negative. *)
zeroFilled(msg) ==
    List([k \in 1..Len(msg) |-> IF msg[k] < 0 THEN 0 ELSE msg[k]])

(* What decode did: kind is "ok" with the returned str in text, or the     *)
(* exception raised; the other fields are the values decode had computed   *)
(* when it ended (<<>> for one it had not).                                *)
Outcome(erasures) ==
    [kind |-> "none", text |-> <<>>, path |-> "none", erasures |-> erasures,
     syndromeComputed |-> FALSE, syndrome_polynomial |-> <<>>,
     forney_syndromes |-> <<>>, locator |-> <<>>, searched |-> FALSE,
     error_list |-> <<>>, error_magnitudes |-> <<>>, decoded_symbols |-> <<>>]

(* The return of decode: the symbols before the parity, as text. *)
returned(outcome, path, symbols, out) ==
    [outcome EXCEPT !.kind = out.kind, !.text = out.text, !.path = path,
                    !.decoded_symbols = symbols]

(* decode after correct. *)
decodeCorrected(outcome, corrected, errorSize) ==
    IF corrected.kind # "ok"
    THEN [outcome EXCEPT !.kind = corrected.kind,
                         !.error_magnitudes = corrected.error_magnitudes]
    ELSE returned([outcome EXCEPT !.error_magnitudes = corrected.error_magnitudes],
                  "corrected", corrected.symbols,
                  utf8(SliceTo(corrected.symbols, 0 - errorSize)))

(* decode after findErrors. *)
decodeFound(outcome, buffer, syndrome_polynomial, erasures, found, errorSize) ==
    IF found.kind # "ok"
    THEN [outcome EXCEPT !.kind = found.kind, !.locator = found.locator,
                         !.searched = found.searched,
                         !.error_list = found.error_list]
    ELSE decodeCorrected(
             [outcome EXCEPT !.locator = found.locator,
                             !.searched = found.searched,
                             !.error_list = found.error_list],
             correct(buffer, syndrome_polynomial, erasures \o found.error_list),
             errorSize)

(* decode after forneySyndromes. *)
decodeForney(outcome, buffer, syndrome_polynomial, erasures, forney_syndromes, length_message, errorSize) ==
    decodeFound([outcome EXCEPT !.forney_syndromes = forney_syndromes],
                buffer, syndrome_polynomial, erasures,
                findErrors(forney_syndromes, length_message), errorSize)

(* decode after the syndrome is computed. *)
decodeSyndrome(outcome, buffer, erasures, syndrome_polynomial, errorSize) ==
    IF \A k \in 1..Len(syndrome_polynomial) : syndrome_polynomial[k] = 0
    THEN returned([outcome EXCEPT !.syndromeComputed = TRUE,
                                  !.syndrome_polynomial = syndrome_polynomial],
                  "fast", buffer,
                  utf8(SliceTo(buffer, 0 - errorSize)))
    ELSE decodeForney([outcome EXCEPT !.syndromeComputed = TRUE,
                                      !.syndrome_polynomial = syndrome_polynomial],
                      buffer, syndrome_polynomial, erasures,
                      forneySyndromes(syndrome_polynomial, erasures, buffer),
                      Len(buffer), errorSize)

(* decode after the erasure scan. *)
decodeScanned(buffer, erasures, errorSize) ==
    IF tooManyErasures(erasures, errorSize)
    THEN [Outcome(erasures) EXCEPT !.kind = "TooManyErasures"]
    ELSE decodeSyndrome(Outcome(erasures), buffer, erasures,
                        syndromePolynomial(buffer, errorSize), errorSize)

(* decode(message, error_size) *)
decode(msg, errorSize) ==
    decodeScanned(zeroFilled(msg), erasureScan(msg), errorSize)

-----------------------------------------------------------------------------
(* The codec in use: ReedSolomon(error_size), encode of a message, the     *)
(* channel erasing and changing symbols, decode of what was received.      *)

MaxParity == 3

MaxMessageLength == 2

MaxDamage == 3

(* Code points of the messages: NUL, an ASCII letter, and one that is not  *)
(* ASCII.                                                                  *)
MessageSymbols == {0, 72, 195}

(* The value an erased position holds. *)
Erased == -1

(* The value the channel writes over a symbol it changes. *)
NoiseSymbols == {255}

(* A message above ASCII whose code points, read as bytes, are well-formed *)
(* UTF-8 (of one other character).                                         *)
WellFormedText == <<195, 169>>

Messages == SeqsUpTo(MessageSymbols, MaxMessageLength) \cup {WellFormedText}

(* The positions of `received` that differ from `encoded`. *)
Damaged == {p \in 1..Len(received) : received[p] # encoded[p]}

ErasedPositions == {p \in 1..Len(received) : received[p] < 0}

ErrorPositions == Damaged \ ErasedPositions

(* No pure function has been called. *)
CallInit ==
    /\ op = "none"
    /\ args = <<>>
    /\ ret = <<>>

CodecInit ==
    /\ pc = "new"
    /\ error_size = 0
    /\ generator_polynomial = <<>>
    /\ message = <<>>
    /\ encoded = <<>>
    /\ received = <<>>
    /\ result = [kind |-> "none"]

(* ReedSolomon(error_size = t) *)
Construct ==
    \E t \in 1..MaxParity :
        /\ pc = "new"
        /\ pc' = "built"
        /\ error_size' = t
        /\ generator_polynomial' = generator(t)
        /\ UNCHANGED <<message, encoded, received, result>>
        /\ UNCHANGED callVars

(* encoded_block = reed_solomon.encode(message, error_size) *)
Encode ==
    \E m \in Messages :
        /\ pc = "built"
        /\ pc' = "sent"
        /\ message' = m
        /\ encoded' = encode(generator_polynomial, m, error_size)
        /\ received' = encoded'
        /\ UNCHANGED <<error_size, generator_polynomial, result>>
        /\ UNCHANGED callVars

(* The channel marks an intact position as erased. *)
Erase ==
    \E p \in 1..Len(received) :
        /\ pc = "sent"
        /\ p \notin Damaged
        /\ Cardinality(Damaged) < MaxDamage
        /\ received' = [received EXCEPT ![p] = Erased]
        /\ UNCHANGED <<pc, error_size, generator_polynomial, message, encoded,
                       result>>
        /\ UNCHANGED callVars

(* The channel changes an intact position to a wrong value. *)
Corrupt ==
    \E p \in 1..Len(received), v \in NoiseSymbols :
        /\ pc = "sent"
        /\ p \notin Damaged
        /\ Cardinality(Damaged) < MaxDamage
        /\ v # encoded[p]
        /\ received' = [received EXCEPT ![p] = v]
        /\ UNCHANGED <<pc, error_size, generator_polynomial, message, encoded,
                       result>>
        /\ UNCHANGED callVars

(* reed_solomon.decode(received, error_size) *)
Decode ==
    /\ pc = "sent"
    /\ pc' = "done"
    /\ result' = decode(received, error_size)
    /\ UNCHANGED <<error_size, generator_polynomial, message, encoded, received>>
    /\ UNCHANGED callVars

Init == CodecInit /\ CallInit

Next == Construct \/ Encode \/ Erase \/ Corrupt \/ Decode

Spec == Init /\ [][Next]_vars

-----------------------------------------------------------------------------
(* Calls of the field primitives on drawn arguments. *)

MaxPower == 3

FieldElements == 0..(lowSize - 1)

NonZeroElements == 1..(lowSize - 1)

Powers == (0 - MaxPower)..MaxPower

CodecIdle ==
    /\ pc = "idle"
    /\ error_size = 0
    /\ generator_polynomial = <<>>
    /\ message = <<>>
    /\ encoded = <<>>
    /\ received = <<>>
    /\ result = [kind |-> "none"]

CallGfPow ==
    \E x \in NonZeroElements, n \in Powers :
        /\ op = "none"
        /\ op' = "gfPow"
        /\ args' = <<x, n>>
        /\ ret' = gfPow(x, n)
        /\ UNCHANGED codecVars

CallGfInv ==
    \E x \in NonZeroElements :
        /\ op = "none"
        /\ op' = "gfInv"
        /\ args' = <<x>>
        /\ ret' = gfInv(x)
        /\ UNCHANGED codecVars

CallGfDiv ==
    \E x \in {0, 1, 2, 4}, y \in FieldElements :
        /\ op = "none"
        /\ op' = "gfDiv"
        /\ args' = <<x, y>>
        /\ ret' = gfDiv(x, y)
        /\ UNCHANGED codecVars

CallGfMul ==
    \E x \in {0, 2, 16}, y \in FieldElements :
        /\ op = "none"
        /\ op' = "gfMul"
        /\ args' = <<x, y>>
        /\ ret' = gfMul(x, y)
        /\ UNCHANGED codecVars

FieldInit == CallInit /\ CodecIdle

FieldNext == CallGfPow \/ CallGfInv \/ CallGfDiv \/ CallGfMul

SpecField == FieldInit /\ [][FieldNext]_vars

-----------------------------------------------------------------------------
(* Calls of the polynomial operations on drawn polynomials. *)

MaxPolyLength == 2

MaxDividendLength == 4

MaxDivisorLength == 2

PolyCoefficients == {0, 1, 2, 142}

DivisionCoefficients == {0, 1, 2}

CallAdd ==
    \E a \in SeqsUpTo(PolyCoefficients, MaxPolyLength),
       b \in SeqsUpTo(PolyCoefficients, MaxPolyLength) :
        /\ op = "none"
        /\ op' = "__add__"
        /\ args' = <<a, b>>
        /\ ret' = __add__(a, b)
        /\ UNCHANGED codecVars

(* The sum just returned, added to the second operand again. *)
CallAddAgain ==
    /\ op = "__add__"
    /\ op' = "add_add"
    /\ ret' = __add__(ret, args[2])
    /\ UNCHANGED args
    /\ UNCHANGED codecVars

CallMul ==
    \E a \in SeqsUpTo(PolyCoefficients, MaxPolyLength),
       b \in SeqsUpTo(PolyCoefficients, MaxPolyLength) :
        /\ op = "none"
        /\ op' = "__mul__"
        /\ args' = <<a, b>>
        /\ ret' = __mul__(a, b)
        /\ UNCHANGED codecVars

CallTrueDiv ==
    \E a \in SeqsUpTo(DivisionCoefficients, MaxDividendLength),
       b \in SeqsUpTo(DivisionCoefficients, MaxDivisorLength) :
        /\ op = "none"
        /\ op' = "__truediv__"
        /\ args' = <<a, b>>
        /\ ret' = __truediv__(a, b)
        /\ UNCHANGED codecVars

PolyInit == CallInit /\ CodecIdle

PolyNext == CallAdd \/ CallAddAgain \/ CallMul \/ CallTrueDiv

SpecPoly == PolyInit /\ [][PolyNext]_vars

-----------------------------------------------------------------------------
(* Properties of the codec, checked under Spec. *)

(* e: the number of positions the channel erased. *)
Erasures == Cardinality(ErasedPositions)

(* f: the number of positions the channel changed to a wrong value. *)
Errors == Cardinality(ErrorPositions)

(* decode returned, and returned the message that was encoded. *)
Recovered == result.kind = "ok" /\ result.text = message

(* C1: decode of an untouched encode(m, t) returns exactly m and raises    *)
(* nothing, for every message m of symbols in [0,255] and every t.         *)
RoundTrip ==
    (pc = "done" /\ received = encoded) => Recovered

(* A code point above 127 alone is encoded and comes back from decode as   *)
(* a UnicodeDecodeError.                                                   *)
RoundTripRaises ==
    /\ pc = "done"
    /\ received = encoded
    /\ message = <<195>>
    /\ result.kind = "UnicodeDecodeError"

(* C2: with e erasures and f errors anywhere in the codeword, the last     *)
(* symbol included, decode returns exactly m whenever e + 2f <= t.         *)
CorrectionCapacity ==
    (pc = "done" /\ Erasures + 2 * Errors <= error_size) => Recovered

(* One error, at the last symbol of the codeword of "H" with two parity    *)
(* symbols, is within capacity and decode raises TooManyErrors.            *)
LastSymbolErrorRejected ==
    /\ pc = "done"
    /\ message = <<72>>
    /\ error_size = 2
    /\ ErasedPositions = {}
    /\ ErrorPositions = {Len(received)}
    /\ result.kind = "TooManyErrors"

(* C3: with no errors and 1 <= e <= t erasures (e = t included) decode     *)
(* returns exactly m, and where the Forney correction ran, its magnitude   *)
(* for every erased position is the original symbol there.                 *)
ErasureOnly ==
    (pc = "done" /\ Errors = 0 /\ 1 <= Erasures /\ Erasures <= error_size)
        => /\ Recovered
           /\ result.path = "corrected" =>
                  \A p \in ErasedPositions :
                      result.error_magnitudes[p] = encoded[p]

(* "H" with one parity symbol and its first symbol erased (e = t = 1):     *)
(* decode returns, and what it returns is not "H".                         *)
BoundaryErasureMisdecoded ==
    /\ pc = "done"
    /\ message = <<72>>
    /\ error_size = 1
    /\ ErasedPositions = {1}
    /\ ErrorPositions = {}
    /\ result.kind = "ok"
    /\ result.text # message

(* C4: decode raises TooManyErasures exactly when more than error_size     *)
(* positions hold a negative value (so not with exactly error_size of      *)
(* them), and then before the syndrome is computed, returning nothing.     *)
TooManyErasuresIff ==
    pc = "done" =>
        /\ (result.kind = "TooManyErasures") <=> (Erasures > error_size)
        /\ result.kind = "TooManyErasures" =>
               /\ ~result.syndromeComputed
               /\ result.syndrome_polynomial = <<>>
               /\ result.text = <<>>
               /\ result.decoded_symbols = <<>>

(* decode of a word with one erasure more than error_size. *)
TooManyErasuresRaised ==
    /\ pc = "done"
    /\ Erasures = error_size + 1
    /\ result.kind = "TooManyErasures"

(* C5, as stated: with e <= t erasures, f >= 1 errors and e + 2f > t,      *)
(* decode raises TooManyErasures or TooManyErrors, so never returns a      *)
(* message other than m.                                                   *)
NoPartialSuccess ==
    (pc = "done" /\ Erasures <= error_size /\ Errors >= 1
                 /\ Erasures + 2 * Errors > error_size)
        => result.kind \in {"TooManyErasures", "TooManyErrors"}

(* C5, amended: with exactly one error and e = t - 1 erasures (3 erasures  *)
(* and 1 error at t = 4 among them) decode raises TooManyErrors and        *)
(* returns no message.                                                     *)
OneErrorBeyondCapacity ==
    (pc = "done" /\ Errors = 1 /\ Erasures = error_size - 1)
        => /\ result.kind = "TooManyErrors"
           /\ result.text = <<>>
           /\ result.decoded_symbols = <<>>

(* decode of a word with one error and t - 1 >= 1 erasures. *)
OneErrorBeyondCapacityRaised ==
    /\ pc = "done"
    /\ Errors = 1
    /\ Erasures = error_size - 1
    /\ Erasures >= 1
    /\ result.kind = "TooManyErrors"

(* The remainder of a divided by the monic g, by long division. *)
RECURSIVE LongDivisionRemainder(_, _)
LongDivisionRemainder(a, g) ==
    IF Len(a) < Len(g) THEN a
    ELSE LongDivisionRemainder(
             Tail(List([i \in 1..Len(a) |->
                          IF i <= Len(g) THEN Xor(a[i], gfMul(a[1], g[i]))
                          ELSE a[i]])),
             g)

(* C6: encode(m, t) has len(m) + t symbols, the first len(m) are m, the    *)
(* last t are the remainder of m * x^t divided by the generator, and its   *)
(* syndrome (its values at 2^0 .. 2^(t-1)) is all zero.                    *)
EncodeSystematic ==
    pc \in {"sent", "done"} =>
        /\ Len(encoded) = Len(message) + error_size
        /\ SubSeq(encoded, 1, Len(message)) = message
        /\ SubSeq(encoded, Len(message) + 1, Len(encoded))
               = LongDivisionRemainder(message \o Zeros(error_size),
                                       generator_polynomial)
        /\ \A i \in 0..(error_size - 1) : eval(encoded, GF(i)) = 0
        /\ syndromePolynomial(encoded, error_size) = Zeros(error_size)

(* A two-symbol message encoded with two parity symbols, not all zero. *)
EncodedWithParity ==
    /\ pc = "sent"
    /\ received = encoded
    /\ Len(message) = 2
    /\ error_size = 2
    /\ \E p \in (Len(message) + 1)..Len(encoded) : encoded[p] # 0

(* The i in [0,255) at which the reversed locator is zero at 2^i. *)
LocatorRoots == {i \in 0..(lowSize - 2) : eval(result.locator, GF(i)) = 0}

(* C10: the Chien search tries each i in [0,255) once, so it reports as    *)
(* many positions as the locator has roots 2^i, each len(received) - i - 1 *)
(* and in [0, len(received)) when i < len(received); one error at the      *)
(* last symbol gives exactly one reported position.                        *)
ChienOncePerRoot ==
    pc = "done" =>
        /\ result.searched =>
               /\ Len(result.error_list) = Cardinality(LocatorRoots)
               /\ {result.error_list[k] : k \in 1..Len(result.error_list)}
                      = {Len(received) - i - 1 : i \in LocatorRoots}
               /\ (\A i \in LocatorRoots : i < Len(received)) =>
                      /\ \A k \in 1..Len(result.error_list) :
                             result.error_list[k] \in 0..(Len(received) - 1)
                      /\ result.kind = "ok"
        /\ (ErasedPositions = {} /\ ErrorPositions = {Len(received)}) =>
               /\ result.searched
               /\ Len(result.error_list) = 1

(* One error at the last symbol of the codeword of "H" with two parity     *)
(* symbols: the search reports two positions, the second negative.         *)
LastSymbolReportedTwice ==
    /\ pc = "done"
    /\ message = <<72>>
    /\ error_size = 2
    /\ ErasedPositions = {}
    /\ ErrorPositions = {Len(received)}
    /\ result.searched
    /\ result.error_list = <<Len(received) - 1, Len(received) - lowSize>>

(* C11: when decode returns through the all-zero-syndrome fast path for a  *)
(* word with e erasures and f errors, e + 2f <= t, the message it returns  *)
(* is m.                                                                   *)
FastPathSound ==
    (pc = "done" /\ result.path = "fast" /\ result.kind = "ok"
                 /\ Erasures + 2 * Errors <= error_size)
        => result.text = message

(* An untouched codeword of a two-symbol message above ASCII goes through  *)
(* the fast path and comes back as one other character.                    *)
FastPathReturnsOtherText ==
    /\ pc = "done"
    /\ message = WellFormedText
    /\ received = encoded
    /\ result.path = "fast"
    /\ result.syndrome_polynomial = Zeros(error_size)
    /\ result.kind = "ok"
    /\ result.text = <<233>>

-----------------------------------------------------------------------------
(* Properties of the field primitives, checked under SpecField. *)

(* C7: for non-zero x and any integer n, power(x, n) is                    *)
(* table[(log[x] * n) mod 255], and power(x, -1) = inverse(x) =            *)
(* divide(1, x).                                                           *)
PowerAgrees ==
    op = "gfPow" =>
        /\ ret = GF((logTable(args[1]) * args[2]) % (lowSize - 1))
        /\ args[2] = -1 =>
               /\ ret = gfInv(args[1])
               /\ gfInv(args[1]) = gfDiv(1, args[1])

(* gfPow(2, -1) returns 1, and the inverse of 2 is 142. *)
PowerOfTwoNotInverse ==
    /\ op = "gfPow"
    /\ args = <<2, -1>>
    /\ ret = 1
    /\ gfInv(2) = 142
    /\ gfDiv(1, 2) = 142

-----------------------------------------------------------------------------
(* Properties of the polynomial operations, checked under SpecPoly. *)

(* C8, as stated: add(add(a, b), b) is the coefficient sequence a, for a   *)
(* and b of any lengths.                                                   *)
AddSelfInverse ==
    op = "add_add" => ret = args[1]

(* C8, amended: add(add(a, b), b) is a padded with zeros on the            *)
(* high-degree side to max(len(a), len(b)) coefficients, which is a        *)
(* itself when len(b) <= len(a).                                           *)
AddSelfInversePadded ==
    op = "add_add" =>
        /\ ret = Zeros(Max(Len(args[1]), Len(args[2])) - Len(args[1])) \o args[1]
        /\ Len(args[2]) <= Len(args[1]) => ret = args[1]

(* add twice of a longer b to a non-zero a: the result is not a. *)
AddedLongerTwice ==
    /\ op = "add_add"
    /\ Len(args[2]) > Len(args[1])
    /\ \E k \in 1..Len(args[1]) : args[1][k] # 0
    /\ ret # args[1]

(* C9: for b with leading coefficient 1 and 2 <= len(b) <= len(a),         *)
(* divide(a, b) returns a quotient and a remainder of len(b) - 1           *)
(* coefficients with a = multiply(quotient, b) XOR remainder.              *)
DivisionIdentity ==
    (op = "__truediv__" /\ Len(args[2]) >= 2 /\ Len(args[2]) <= Len(args[1])
                        /\ args[2][1] = 1)
        => /\ Len(ret.remainder) = Len(args[2]) - 1
           /\ args[1] = __add__(__mul__(ret.quotient, args[2]), ret.remainder)

(* x + 1 divided by itself: quotient 1 and remainder 1. *)
DividedByItself ==
    /\ op = "__truediv__"
    /\ args = << <<1, 1>>, <<1, 1>> >>
    /\ ret = [quotient |-> <<1>>, remainder |-> <<1>>]

=============================================================================
